---- MODULE Spec2Model ----
(***************************************************************************)
(* Model of src/services/spell_check.py (class SpellCheck): the three      *)
(* edit-distance scorers, the two matrix builders and the one-edit         *)
(* candidate generator.                                                    *)
(*                                                                         *)
(* Conventions.  A character is a number: 1 = "a", 2 = "b", 3 = "c", ...;  *)
(* 0 stands for the extra key "_" of the last-row dictionary.  A word is a *)
(* sequence of characters, so Python's word[k] (0-based) is word[k+1]      *)
(* here.  A matrix is a function from 0-based row indices to functions     *)
(* from 0-based column indices, as a numpy 2-D array is; At models numpy   *)
(* indexing, where a negative index counts from the end of the axis.       *)
(***************************************************************************)
EXTENDS Integers, Sequences, FiniteSets

\* ---------------------------------------------------------------- bounds
\* Two families of argument pairs are explored: short words over NumLetters
\* letters, and long first arguments over the first LongLetters letters.
NumLetters == 3
MaxUserLen == 2
MaxDictLen == 3
LongLetters == 1
LongUserLen == 5
LongDictLen == 2
MaxThirdLen == 2
MaxGenLen == 4

\* The key "_" of the dictionary of generate_baseline_row_for_characters.
Underscore == 0

\* alternative_letters / string.ascii_lowercase, cut to its first letters.
alternative_letters == 1..NumLetters

WordsUpTo(letters, n) == UNION {[1..k -> 1..letters] : k \in 0..n}

\* (user_word, dictionary_word) pairs the scorers are called on.
WordPairs ==
  (WordsUpTo(NumLetters, MaxUserLen) \X WordsUpTo(NumLetters, MaxDictLen))
    \cup (WordsUpTo(LongLetters, LongUserLen) \X WordsUpTo(LongLetters, LongDictLen))

ThirdWords == WordsUpTo(LongLetters, MaxThirdLen)

GenWords == WordsUpTo(NumLetters, MaxGenLen)

\* ------------------------------------------------------- numpy / builtins
\* numpy index on an axis of the given size: negative indices wrap once.
Wrap(k, size) == IF k < 0 THEN k + size ELSE k

NumRows(M) == Cardinality(DOMAIN M)

NumCols(M) == Cardinality(DOMAIN M[0])

\* distance_matrix[r][c] as numpy evaluates it.
At(M, r, c) == M[Wrap(r, NumRows(M))][Wrap(c, NumCols(M))]

Min2(x, y) == IF x <= y THEN x ELSE y

Min3(x, y, z) == Min2(x, Min2(y, z))

Min4(x, y, z, w) == Min2(Min2(x, y), Min2(z, w))

\* ------------------------------------------------------- matrix builders
generate_matrix(user_word_length, dictionary_word_length) ==
  [r \in 0..user_word_length |->
     [c \in 0..dictionary_word_length |->
        IF r = 0 THEN c
        ELSE IF c = 0 THEN r
        ELSE user_word_length + dictionary_word_length]]

DLBorderRowShifted(i) == i

DLBorder(i) == i - 1

generate_damerau_leven_matrix(user_word_length, dictionary_word_length) ==
  [r \in 0..(user_word_length + 1) |->
     [c \in 0..(dictionary_word_length + 1) |->
        IF r = 1 /\ c >= 1 THEN DLBorder(c)
        ELSE IF c = 1 /\ r >= 1 THEN DLBorder(r)
        ELSE user_word_length + dictionary_word_length]]

generate_baseline_row_for_characters ==
  [ch \in alternative_letters \cup {Underscore} |-> 0]

CostAlwaysZero(character_1, character_2) == 0

CostSwapped(character_1, character_2) ==
  IF character_1 = character_2 THEN 1 ELSE 0

cost_heuristic_for_characters(character_1, character_2) ==
  IF character_1 = character_2 THEN 0 ELSE 1

\* ----------------------------------------------------------- Levenshtein
\* One execution of the inner loop body of calculate_levenshtein_distance.
LevCell(M, i, j, user, dict) ==
  LET distance == cost_heuristic_for_characters(user[i], dict[j])
  IN [M EXCEPT ![i][j] = Min3(At(M, i-1, j) + 1,
                              At(M, i, j-1) + 1,
                              At(M, i-1, j-1) + distance)]

RECURSIVE LevFill(_, _, _, _, _)
LevFill(M, i, j, user, dict) ==
  IF i > Len(user) THEN M
  ELSE IF j > Len(dict) THEN LevFill(M, i + 1, 1, user, dict)
  ELSE LevFill(LevCell(M, i, j, user, dict), i, j + 1, user, dict)

LevMatrix(user, dict) ==
  LevFill(generate_matrix(Len(user), Len(dict)), 1, 1, user, dict)

calculate_levenshtein_distance(user, dict) ==
  At(LevMatrix(user, dict), Len(user), Len(dict))

\* ------------------------------------------- optimal string alignment
OSACell(M, i, j, user, dict) ==
  LET M1 == LevCell(M, i, j, user, dict)
  IN IF i > 1 /\ j > 1 /\ user[i] = dict[j-1] /\ user[i-1] = dict[j]
     THEN [M1 EXCEPT ![i][j] = Min2(At(M1, i, j), At(M1, i-2, j-2) + 1)]
     ELSE M1

RECURSIVE OSAFill(_, _, _, _, _)
OSAFill(M, i, j, user, dict) ==
  IF i > Len(user) THEN M
  ELSE IF j > Len(dict) THEN OSAFill(M, i + 1, 1, user, dict)
  ELSE OSAFill(OSACell(M, i, j, user, dict), i, j + 1, user, dict)

OSAMatrix(user, dict) ==
  OSAFill(generate_matrix(Len(user), Len(dict)), 1, 1, user, dict)

calculate_optimal_string_alignment_distance(user, dict) ==
  At(OSAMatrix(user, dict), Len(user), Len(dict))

\* --------------------------------------------------- Damerau-Levenshtein
\* The locals of calculate_damerau_levenshtein_distance as one record:
\*   M  distance_matrix            lr  latest_row_for_character
\*   lc latest_column_for_character
\*   i, j the loop counters        lmr, lmc  last_matching_row / _column
\*   at  the position in the function: "row" (head of the outer loop),
\*       "cell" (head of the inner loop), "return"
DLStart(user, dict) ==
  [M   |-> generate_damerau_leven_matrix(Len(user), Len(dict)),
   lr  |-> generate_baseline_row_for_characters,
   lc  |-> 0, i |-> 2, j |-> 2, lmr |-> 0, lmc |-> 0, at |-> "row"]

\* for i in range(2, len(user_word)+2): latest_column_for_character = 0
DLRowHead(f, user, dict) ==
  IF f.i <= Len(user) + 1
  THEN [f EXCEPT !.lc = 0, !.j = 2, !.at = "cell"]
  ELSE [f EXCEPT !.at = "return"]

DLCellBodyNoTransposition(f, user, dict) ==
  LET i == f.i
      j == f.j
      same == user[i-1] = dict[j-1]
      distance_cost == IF same THEN 0 ELSE 1
  IN [f EXCEPT
        !.lmr = f.lr[dict[j-1]],
        !.lmc = f.lc,
        !.lc = IF same THEN j ELSE f.lc,
        !.M[i][j] = Min3(At(f.M, i-1, j-1) + distance_cost,
                         At(f.M, i, j-1) + 1,
                         At(f.M, i-1, j) + 1),
        !.j = j + 1]

\* One execution of the inner loop body (source lines 284-302).
DLCellBody(f, user, dict) ==
  LET i == f.i
      j == f.j
      last_matching_row == f.lr[dict[j-1]]
      last_matching_column == f.lc
      same == user[i-1] = dict[j-1]
      distance_cost == IF same THEN 0 ELSE 1
  IN [f EXCEPT
        !.lmr = last_matching_row,
        !.lmc = last_matching_column,
        !.lc = IF same THEN j ELSE f.lc,
        !.M[i][j] = Min4(At(f.M, i-1, j-1) + distance_cost,
                         At(f.M, i, j-1) + 1,
                         At(f.M, i-1, j) + 1,
                         At(f.M, last_matching_row - 1, last_matching_column - 1)
                           + (i - last_matching_row - 1)
                           + (j - last_matching_column - 1) + 1),
        !.j = j + 1]

\* latest_row_for_character[user_word[i-2]] = i, then the next i.
DLRowTail(f, user, dict) ==
  [f EXCEPT !.lr[user[f.i - 1]] = f.i, !.i = f.i + 1, !.at = "row"]

DLStep(f, user, dict) ==
  IF f.at = "row" THEN DLRowHead(f, user, dict)
  ELSE IF f.j <= Len(dict) + 1 THEN DLCellBody(f, user, dict)
  ELSE DLRowTail(f, user, dict)

RECURSIVE DLRun(_, _, _)
DLRun(f, user, dict) ==
  IF f.at = "return" THEN f ELSE DLRun(DLStep(f, user, dict), user, dict)

calculate_damerau_levenshtein_distance(user, dict) ==
  At(DLRun(DLStart(user, dict), user, dict).M, -1, -1)

\* ---------------------------------------------------- candidate generator
\* test_word[:k] and test_word[k:]
SplitLeft(w, k) == SubSeq(w, 1, k)

SplitRight(w, k) == SubSeq(w, k + 1, Len(w))

AlternativesDeletingTwo(test_word) ==
  LET splits == 0..Len(test_word)
      L(k) == SplitLeft(test_word, k)
      R(k) == SplitRight(test_word, k)
  IN {L(k) \o SubSeq(R(k), 3, Len(R(k))) : k \in {s \in splits : Len(R(s)) > 0}}
     \cup {L(k) \o <<R(k)[2], R(k)[1]>> \o SubSeq(R(k), 3, Len(R(k))) :
             k \in {s \in splits : Len(R(s)) > 1}}
     \cup {L(p[1]) \o <<p[2]>> \o Tail(R(p[1])) :
             p \in {s \in splits : Len(R(s)) > 0} \X alternative_letters}
     \cup {L(p[1]) \o <<p[2]>> \o R(p[1]) : p \in splits \X alternative_letters}

alternative_words_with_one_distance(test_word) ==
  LET splits == 0..Len(test_word)
      L(k) == SplitLeft(test_word, k)
      R(k) == SplitRight(test_word, k)
      deleting_characters ==
        {L(k) \o Tail(R(k)) : k \in {s \in splits : Len(R(s)) > 0}}
      transposing_characters_in_split_words ==
        {L(k) \o <<R(k)[2], R(k)[1]>> \o SubSeq(R(k), 3, Len(R(k))) :
           k \in {s \in splits : Len(R(s)) > 1}}
      replacing_characters_in_split_words ==
        {L(p[1]) \o <<p[2]>> \o Tail(R(p[1])) :
           p \in {s \in splits : Len(R(s)) > 0} \X alternative_letters}
      insert_characters_in_split_words ==
        {L(p[1]) \o <<p[2]>> \o R(p[1]) : p \in splits \X alternative_letters}
  IN deleting_characters \cup transposing_characters_in_split_words
       \cup replacing_characters_in_split_words
       \cup insert_characters_in_split_words

\* ------------------------------------------------------------------ state
VARIABLES
  user_word,          \* first argument of the call
  dictionary_word,    \* second argument of the call
  pc,                 \* where the caller is
  frame,              \* locals of a running calculate_damerau_levenshtein_distance
  distance_matrix,    \* the matrix the finished scorer filled
  shortest_distance,  \* value returned by a scorer
  alternative_words_generated  \* value returned by the generator

vars == <<user_word, dictionary_word, pc, frame, distance_matrix,
          shortest_distance, alternative_words_generated>>

NoFrame == [at |-> "none"]

NoMatrix == << >>

Init ==
  /\ \E pair \in WordPairs :
       /\ user_word = pair[1]
       /\ dictionary_word = pair[2]
  /\ pc = "idle"
  /\ frame = NoFrame
  /\ distance_matrix = NoMatrix
  /\ shortest_distance = -1
  /\ alternative_words_generated = {}

CallLevenshtein ==
  /\ pc = "idle"
  /\ pc' = "lev_done"
  /\ distance_matrix' = LevMatrix(user_word, dictionary_word)
  /\ shortest_distance' = calculate_levenshtein_distance(user_word, dictionary_word)
  /\ UNCHANGED <<user_word, dictionary_word, frame, alternative_words_generated>>

CallOSA ==
  /\ pc = "idle"
  /\ pc' = "osa_done"
  /\ distance_matrix' = OSAMatrix(user_word, dictionary_word)
  /\ shortest_distance' =
       calculate_optimal_string_alignment_distance(user_word, dictionary_word)
  /\ UNCHANGED <<user_word, dictionary_word, frame, alternative_words_generated>>

CallDL ==
  /\ pc = "idle"
  /\ pc' = "dl_running"
  /\ frame' = DLStart(user_word, dictionary_word)
  /\ UNCHANGED <<user_word, dictionary_word, distance_matrix,
                 shortest_distance, alternative_words_generated>>

DLRowStart ==
  /\ pc = "dl_running"
  /\ frame.at = "row"
  /\ frame' = DLStep(frame, user_word, dictionary_word)
  /\ UNCHANGED <<user_word, dictionary_word, pc, distance_matrix,
                 shortest_distance, alternative_words_generated>>

DLCell ==
  /\ pc = "dl_running"
  /\ frame.at = "cell"
  /\ frame.j <= Len(dictionary_word) + 1
  /\ frame' = DLStep(frame, user_word, dictionary_word)
  /\ UNCHANGED <<user_word, dictionary_word, pc, distance_matrix,
                 shortest_distance, alternative_words_generated>>

DLRowEnd ==
  /\ pc = "dl_running"
  /\ frame.at = "cell"
  /\ frame.j > Len(dictionary_word) + 1
  /\ frame' = DLStep(frame, user_word, dictionary_word)
  /\ UNCHANGED <<user_word, dictionary_word, pc, distance_matrix,
                 shortest_distance, alternative_words_generated>>

DLReturn ==
  /\ pc = "dl_running"
  /\ frame.at = "return"
  /\ pc' = "dl_done"
  /\ distance_matrix' = frame.M
  /\ shortest_distance' = At(frame.M, -1, -1)
  /\ frame' = NoFrame
  /\ UNCHANGED <<user_word, dictionary_word, alternative_words_generated>>

CallAlternatives ==
  /\ pc = "idle"
  /\ pc' = "alt_done"
  /\ alternative_words_generated' = alternative_words_with_one_distance(user_word)
  /\ UNCHANGED <<user_word, dictionary_word, frame, distance_matrix,
                 shortest_distance>>

Next ==
  \/ CallLevenshtein
  \/ CallOSA
  \/ CallDL
  \/ DLRowStart
  \/ DLCell
  \/ DLRowEnd
  \/ DLReturn

\* The scorers, called on every pair of words within the bounds.
Spec == Init /\ [][Next]_vars

\* The candidate generator, called on every word within its bound; it takes
\* one word, so the second argument stays empty.
InitGen ==
  /\ user_word \in GenWords
  /\ dictionary_word = << >>
  /\ pc = "idle"
  /\ frame = NoFrame
  /\ distance_matrix = NoMatrix
  /\ shortest_distance = -1
  /\ alternative_words_generated = {}

NextGen == CallAlternatives

SpecGen == InitGen /\ [][NextGen]_vars

TypeOK ==
  /\ <<user_word, dictionary_word>> \in WordPairs \cup (GenWords \X {<< >>})
  /\ pc \in {"idle", "lev_done", "osa_done", "dl_running", "dl_done", "alt_done"}

\* ------------------------------------------------------------------------
\* Reference notions used by the properties below.

SetMin(S) == CHOOSE x \in S : \A y \in S : x <= y

\* The unrestricted Damerau-Levenshtein distance: the least number of
\* insertions, deletions, substitutions and adjacent transpositions turning
\* a into b.  D[i, j] is the distance between the first i characters of a and
\* the first j of b; a transposition of a[k], a[i] onto b[l], b[j] costs the
\* deletions between k and i, the swap, and the insertions between l and j.
DamerauLevenshteinDistance(a, b) ==
  LET D[i \in 0..Len(a), j \in 0..Len(b)] ==
        IF i = 0 THEN j
        ELSE IF j = 0 THEN i
        ELSE SetMin(
               {D[i-1, j] + 1, D[i, j-1] + 1,
                D[i-1, j-1] + (IF a[i] = b[j] THEN 0 ELSE 1)}
               \cup {D[p[1]-1, p[2]-1] + (i - p[1] - 1) + 1 + (j - p[2] - 1) :
                       p \in {q \in (1..(i-1)) \X (1..(j-1)) :
                                a[q[1]] = b[j] /\ a[i] = b[q[2]]}})
  IN D[Len(a), Len(b)]

\* c is w with two distinct adjacent characters swapped.
IsProperTransposition(w, c) ==
  /\ Len(c) = Len(w)
  /\ \E k \in 1..(Len(w) - 1) :
       /\ w[k] # w[k+1]
       /\ c = [w EXCEPT ![k] = w[k+1], ![k+1] = w[k]]

WellFormed(M, rows, cols) ==
  /\ DOMAIN M = 0..(rows - 1)
  /\ \A r \in DOMAIN M : DOMAIN M[r] = 0..(cols - 1)

ScorerDone == pc \in {"lev_done", "osa_done", "dl_done"}

WordCA == <<3, 1>>

WordABC == <<1, 2, 3>>

\* ------------------------------------------------------------------------
\* C1: calculate_damerau_levenshtein_distance(a, b) is the unrestricted
\* Damerau-Levenshtein distance between a and b, for all words a, b.
C1_DLIsUnrestrictedDistance ==
  pc = "dl_done" =>
    shortest_distance = DamerauLevenshteinDistance(user_word, dictionary_word)

\* C2: Levenshtein and Damerau-Levenshtein give the same value when their
\* two arguments are exchanged.
C2_Symmetric ==
  /\ pc = "lev_done" =>
       shortest_distance = calculate_levenshtein_distance(dictionary_word, user_word)
  /\ pc = "dl_done" =>
       shortest_distance =
         calculate_damerau_levenshtein_distance(dictionary_word, user_word)

\* C3: Damerau-Levenshtein <= optimal string alignment <= Levenshtein on
\* every pair of words.
C3_Ordering ==
  /\ pc = "dl_done" =>
       shortest_distance <=
         calculate_optimal_string_alignment_distance(user_word, dictionary_word)
  /\ pc = "osa_done" =>
       shortest_distance <=
         calculate_levenshtein_distance(user_word, dictionary_word)

C3_Witness ==
  /\ pc = "dl_done"
  /\ shortest_distance <
       calculate_optimal_string_alignment_distance(user_word, dictionary_word)
  /\ calculate_optimal_string_alignment_distance(user_word, dictionary_word) <=
       calculate_levenshtein_distance(user_word, dictionary_word)

\* C4: the triangle inequality d(a, c) <= d(a, b) + d(b, c) holds for
\* Levenshtein and for Damerau-Levenshtein, for all words a, b, c
\* (a = user_word, b = dictionary_word, c any third word).
C4_Triangle ==
  /\ pc = "lev_done" =>
       \A c \in ThirdWords :
         calculate_levenshtein_distance(user_word, c) <=
           shortest_distance + calculate_levenshtein_distance(dictionary_word, c)
  /\ pc = "dl_done" =>
       \A c \in ThirdWords :
         calculate_damerau_levenshtein_distance(user_word, c) <=
           shortest_distance
             + calculate_damerau_levenshtein_distance(dictionary_word, c)

\* C5: for a non-empty word w, alternative_words_with_one_distance(w) does
\* not contain w itself.
C5_WordNotItsOwnCandidate ==
  (pc = "alt_done" /\ user_word # << >>) =>
    user_word \notin alternative_words_generated

\* C6 as stated: every candidate of alternative_words_with_one_distance(w)
\* has Levenshtein distance exactly 1 from w.
C6_CandidatesAtLevenshteinOne ==
  pc = "alt_done" =>
    \A c \in alternative_words_generated :
      calculate_levenshtein_distance(user_word, c) = 1

\* C6 as amended: every candidate c has Levenshtein distance 1 from w, except
\* that a candidate swapping two distinct adjacent characters of w has
\* distance 2 and the candidate c = w has distance 0.
C6_CandidateLevenshteinDistances ==
  pc = "alt_done" =>
    \A c \in alternative_words_generated :
      calculate_levenshtein_distance(user_word, c) =
        (IF c = user_word THEN 0
         ELSE IF IsProperTransposition(user_word, c) THEN 2
         ELSE 1)

C6_Witness ==
  /\ pc = "alt_done"
  /\ \E c \in alternative_words_generated :
       /\ IsProperTransposition(user_word, c)
       /\ calculate_levenshtein_distance(user_word, c) = 2
  /\ \E c \in alternative_words_generated :
       calculate_levenshtein_distance(user_word, c) = 1

\* C7: when an argument is the empty word each scorer returns the length of
\* the other argument (0 when both are empty); the matrix built for it has
\* the full shape, the fill touches no cell, and the cell returned lies in
\* the matrix.
C7_EmptyWord ==
  LET m == Len(user_word)
      n == Len(dictionary_word)
      empty == m = 0 \/ n = 0
  IN /\ (ScorerDone /\ empty) => shortest_distance = m + n
     /\ (pc \in {"lev_done", "osa_done"} /\ empty) =>
          /\ WellFormed(distance_matrix, m + 1, n + 1)
          /\ distance_matrix = generate_matrix(m, n)
     /\ (pc = "dl_done" /\ empty) =>
          /\ WellFormed(distance_matrix, m + 2, n + 2)
          /\ distance_matrix = generate_damerau_leven_matrix(m, n)
          /\ Wrap(-1, NumRows(distance_matrix)) = m + 1
          /\ Wrap(-1, NumCols(distance_matrix)) = n + 1
     /\ (pc = "dl_running" /\ empty) =>
          /\ frame.at # "cell" \/ frame.j > n + 1
          /\ frame.M = generate_damerau_leven_matrix(m, n)

C7_Witness ==
  /\ pc = "dl_done"
  /\ user_word = << >>
  /\ Len(dictionary_word) > 1
  /\ shortest_distance = Len(dictionary_word)

\* C8: distance(w, w) = 0 for the three scorers and every word w, the empty
\* word included.
C8_IdenticalWordsAtZero ==
  /\ (ScorerDone /\ user_word = dictionary_word) => shortest_distance = 0
  /\ pc = "idle" =>
       /\ calculate_levenshtein_distance(user_word, user_word) = 0
       /\ calculate_optimal_string_alignment_distance(user_word, user_word) = 0
       /\ calculate_damerau_levenshtein_distance(user_word, user_word) = 0

C8_Witness ==
  /\ pc = "dl_done"
  /\ user_word = dictionary_word
  /\ Len(user_word) > 1
  /\ shortest_distance = 0

\* C9: for user_word "ca" and dictionary_word "abc" the Damerau-Levenshtein
\* scorer returns 2 and the optimal string alignment scorer returns 3.
C9_CaAbc ==
  (user_word = WordCA /\ dictionary_word = WordABC) =>
    /\ pc = "dl_done" => shortest_distance = 2
    /\ pc = "osa_done" => shortest_distance = 3
    /\ pc = "dl_done" =>
         shortest_distance <
           calculate_optimal_string_alignment_distance(user_word, dictionary_word)

C9_Witness ==
  /\ user_word = WordCA
  /\ dictionary_word = WordABC
  /\ pc = "dl_done"
  /\ shortest_distance = 2

\* C10: after every execution of the inner loop body of
\* calculate_damerau_levenshtein_distance, the indices last_matching_row - 1
\* and last_matching_column - 1 it read the matrix at are not negative.
C10_LookupIndicesNonNegative ==
  (pc = "dl_running" /\ frame.at = "cell" /\ frame.j > 2) =>
    /\ frame.lmr - 1 >= 0
    /\ frame.lmc - 1 >= 0
====
